---------------------------- MODULE Spec2Model ----------------------------
(***************************************************************************)
(* Model of the two memory-graph programs of mcp-memory-visualizer:        *)
(*   visualize_memory.py             (static: NetworkX + Matplotlib)       *)
(*   visualize_memory_interactive.py (interactive: PyVis)                  *)
(* A run reads memory.json, splits its records into entities and           *)
(* relations, prints an analysis and a redundancy report and writes a      *)
(* rendering.  Each function called by main() is one action; the           *)
(* functions themselves are operators computed the way the code computes   *)
(* them.  A name is a sequence of characters, so that str.lower() and the  *)
(* substring test of find_redundancies are computed, not assumed.          *)
(***************************************************************************)
EXTENDS Integers, Sequences, FiniteSets, TLC

VARIABLES program, file, pc, entities, relations, G, net, analysis,
          redundancy, stdout, saved

vars == <<program, file, pc, entities, relations, G, net, analysis,
          redundancy, stdout, saved>>

(***************************************************************************)
(* Bounds of the model                                                     *)
(***************************************************************************)
MaxRecords == 4        \* records of a well-formed file (Spec)
MaxLines == 4          \* lines of an arbitrary file (SpecParse)
MaxNames == 4          \* entities of a name-similarity file (SpecNames)
MaxTopNodes == 6       \* entities of a ranking file (SpecTop)
MaxTopRelations == 2   \* relations of a ranking file (SpecTop)

(***************************************************************************)
(* Program constants                                                       *)
(***************************************************************************)
TopK == 5              \* [:5] of the most-connected list
ShowFirst == 5         \* [:5] of the printed isolated / similar / sparse lists
SparseLimit == 1       \* len(e['observations']) <= 1

(***************************************************************************)
(* Generic sequence helpers                                                *)
(***************************************************************************)
Min(a, b) == IF a <= b THEN a ELSE b

Take(s, n) == SubSeq(s, 1, Min(n, Len(s)))

Range(s) == {s[i] : i \in 1..Len(s)}

RECURSIVE SumSeq(_)
SumSeq(s) == IF s = <<>> THEN 0 ELSE Head(s) + SumSeq(Tail(s))

(***************************************************************************)
(* Strings: a name is a sequence of characters                             *)
(***************************************************************************)
LowerChar(c) == IF c = "A" THEN "a" ELSE IF c = "B" THEN "b" ELSE c

\* str.lower()
Lower(s) == [i \in 1..Len(s) |-> LowerChar(s[i])]

\* Python's  sub in s  on strings
Contains(sub, s) ==
    \E k \in 0..(Len(s) - Len(sub)) : SubSeq(s, k + 1, k + Len(sub)) = sub

Alice == <<"A", "l", "i", "c", "e">>
alice == <<"a", "l", "i", "c", "e">>
alice2 == <<"a", "l", "i", "c", "e", "2">>
Bob == <<"B", "o", "b">>
ob == <<"o", "b">>
Carol == <<"C", "a", "r", "o", "l">>
Dan == <<"D", "a", "n">>
Eve == <<"E", "v", "e">>
Fay == <<"F", "a", "y">>
Gus == <<"G", "u", "s">>
Zed == <<"Z", "e", "d">>

(***************************************************************************)
(* JSON records.  A record is a function on the keys it has, so a missing  *)
(* key is a key outside its DOMAIN, and record[key] on it is a KeyError.   *)
(***************************************************************************)
Has(d, k) == k \in DOMAIN d

\* dict.get(k): the value, or None
Get(d, k) == IF Has(d, k) THEN d[k] ELSE "None"

Obs(n) == [i \in 1..n |-> "o"]

Entity(n, t, o) ==
    [type |-> "entity", name |-> n, entityType |-> t, observations |-> Obs(o)]

Relation(f, t) ==
    [type |-> "relation", from |-> f, to |-> t, relationType |-> "knows"]

JsonLine(d) == [kind |-> "object", data |-> d]
BlankLine == [kind |-> "blank", data |-> [type |-> "None"]]
InvalidLine == [kind |-> "invalid", data |-> [type |-> "None"]]
OtherLine == JsonLine([type |-> "note"])

(***************************************************************************)
(* load_memory_file: blank lines are skipped, json.loads raises on a line  *)
(* that is not JSON, records of another type are ignored.                  *)
(***************************************************************************)
RECURSIVE LoadLines(_, _, _)
LoadLines(lines, ents, rels) ==
    IF lines = <<>> THEN [raised |-> FALSE, entities |-> ents, relations |-> rels]
    ELSE LET line == Head(lines) IN
         IF line.kind = "blank" THEN LoadLines(Tail(lines), ents, rels)
         ELSE IF line.kind = "invalid"
              THEN [raised |-> TRUE, entities |-> ents, relations |-> rels]
         ELSE IF Get(line.data, "type") = "entity"
              THEN LoadLines(Tail(lines), Append(ents, line.data), rels)
         ELSE IF Get(line.data, "type") = "relation"
              THEN LoadLines(Tail(lines), ents, Append(rels, line.data))
         ELSE LoadLines(Tail(lines), ents, rels)

load_memory_file(lines) == LoadLines(lines, <<>>, <<>>)

(***************************************************************************)
(* nx.Graph as the code uses it: nodes in insertion order with their       *)
(* attributes, and undirected edges, one per unordered pair of nodes.      *)
(***************************************************************************)
EmptyGraph == [nodes |-> <<>>, edges |-> <<>>]

NodeNames(g) == [i \in 1..Len(g.nodes) |-> g.nodes[i].name]

HasNode(g, n) == \E i \in 1..Len(g.nodes) : g.nodes[i].name = n

NodeAttr(g, n) == g.nodes[CHOOSE i \in 1..Len(g.nodes) : g.nodes[i].name = n]

\* add_node that leaves an existing node as it is (first write wins)
add_node_keep_first(g, n, t, o) ==
    IF HasNode(g, n) THEN g
    ELSE [g EXCEPT !.nodes = Append(g.nodes,
              [name |-> n, entity_type |-> t, observations |-> o])]

\* G.add_node(n, **attr): a new node is appended, an existing one has its
\* attributes updated in place
add_node(g, n, t, o) ==
    LET new == [name |-> n, entity_type |-> t, observations |-> o] IN
    IF HasNode(g, n)
    THEN [g EXCEPT !.nodes =
              [i \in 1..Len(g.nodes) |->
                  IF g.nodes[i].name = n THEN new ELSE g.nodes[i]]]
    ELSE [g EXCEPT !.nodes = Append(g.nodes, new)]

SameEdge(e, u, v) == (e.u = u /\ e.v = v) \/ (e.u = v /\ e.v = u)

\* add_edge of a multigraph: parallel edges are kept
add_edge_parallel(g, u, v, rt) ==
    [g EXCEPT !.edges = Append(g.edges, [u |-> u, v |-> v, relation_type |-> rt])]

\* G.add_edge(u, v, **attr) between existing nodes: a new edge is appended,
\* an existing edge between the same two nodes has its attributes updated
add_edge(g, u, v, rt) ==
    IF \E i \in 1..Len(g.edges) : SameEdge(g.edges[i], u, v)
    THEN [g EXCEPT !.edges =
              [i \in 1..Len(g.edges) |->
                  IF SameEdge(g.edges[i], u, v)
                  THEN [g.edges[i] EXCEPT !.relation_type = rt]
                  ELSE g.edges[i]]]
    ELSE [g EXCEPT !.edges =
              Append(g.edges, [u |-> u, v |-> v, relation_type |-> rt])]

EntityKeys == {"name", "entityType", "observations"}

RECURSIVE AddNodes(_, _)
AddNodes(g, ents) ==
    IF ents = <<>> THEN [raised |-> FALSE, G |-> g]
    ELSE LET entity == Head(ents) IN
         IF ~(EntityKeys \subseteq DOMAIN entity)
         THEN [raised |-> TRUE, G |-> g]
         ELSE AddNodes(add_node(g, entity.name, entity.entityType,
                                Len(entity.observations)), Tail(ents))

\* relation['from'] in G.nodes and relation['to'] in G.nodes: the second
\* operand is evaluated only when the first is true
BothKnown(g, relation) ==
    HasNode(g, relation.from) /\ HasNode(g, relation.to)

\* the KeyError of one pass of the relation loop
RelationRaises(g, relation) ==
    \/ ~Has(relation, "from")
    \/ HasNode(g, relation.from) /\ ~Has(relation, "to")
    \/ HasNode(g, relation.from) /\ HasNode(g, relation.to)
         /\ ~Has(relation, "relationType")

RECURSIVE AddEdges(_, _)
AddEdges(g, rels) ==
    IF rels = <<>> THEN [raised |-> FALSE, G |-> g]
    ELSE LET relation == Head(rels) IN
         IF RelationRaises(g, relation) THEN [raised |-> TRUE, G |-> g]
         ELSE IF BothKnown(g, relation)
              THEN AddEdges(add_edge(g, relation.from, relation.to,
                                     relation.relationType), Tail(rels))
              ELSE AddEdges(g, Tail(rels))

\* create_graph returns G and nothing else
create_graph(ents, rels) ==
    LET n == AddNodes(EmptyGraph, ents) IN
    IF n.raised THEN n ELSE AddEdges(n.G, rels)

(***************************************************************************)
(* NetworkX measures used by analyze_graph                                 *)
(***************************************************************************)
\* G.degree[n]: the neighbours of n, a self-loop counted twice
degree(g, n) ==
    Cardinality({i \in 1..Len(g.edges) : g.edges[i].u = n \/ g.edges[i].v = n})
    + Cardinality({i \in 1..Len(g.edges) : g.edges[i].u = n /\ g.edges[i].v = n})

number_of_nodes(g) == Len(g.nodes)

\* G.number_of_edges(): half the sum of the degrees
number_of_edges(g) ==
    SumSeq([i \in 1..Len(g.nodes) |-> degree(g, g.nodes[i].name)]) \div 2

\* isolates that overlooks self-loops: the nodes with no other neighbour
isolates_no_other_neighbour(g) ==
    SelectSeq([i \in 1..Len(g.nodes) |-> g.nodes[i].name],
              LAMBDA n : \A e \in {g.edges[i] : i \in 1..Len(g.edges)} :
                             n \in {e.u, e.v} => e.u = e.v)

\* nx.isolates(G): the nodes of degree 0, in node order
isolates(g) == SelectSeq(NodeNames(g), LAMBDA n : degree(g, n) = 0)

Neighbours(g, S) ==
    S \cup {e.u : e \in {x \in Range(g.edges) : x.v \in S}}
      \cup {e.v : e \in {x \in Range(g.edges) : x.u \in S}}

RECURSIVE Reach(_, _)
Reach(g, S) == IF Neighbours(g, S) = S THEN S ELSE Reach(g, Neighbours(g, S))

number_connected_components(g) ==
    Cardinality({Reach(g, {n}) : n \in Range(NodeNames(g))})

\* A centrality is the rational num/den, den > 0
Frac(n, d) == [num |-> n, den |-> d]

FracLess(a, b) == a.num * b.den < b.num * a.den

\* degree_centrality without the guard for graphs of at most one node
degree_centrality_unguarded(g) ==
    [i \in 1..Len(g.nodes) |->
        [key |-> g.nodes[i].name,
         val |-> [num |-> degree(g, g.nodes[i].name),
                  den |-> Len(g.nodes) - 1]]]

\* nx.degree_centrality(G): 1 for every node of a graph of at most one
\* node, else degree * 1/(n - 1); a dict in node order
degree_centrality(g) ==
    [i \in 1..Len(g.nodes) |->
        [key |-> g.nodes[i].name,
         val |-> IF Len(g.nodes) <= 1 THEN Frac(1, 1)
                 ELSE Frac(degree(g, g.nodes[i].name), Len(g.nodes) - 1)]]

\* a descending insertion that puts an item before the items equal to it
RECURSIVE InsertDescUnstable(_, _)
InsertDescUnstable(s, x) ==
    IF s = <<>> THEN <<x>>
    ELSE IF ~(x.val.num * Head(s).val.den < Head(s).val.num * x.val.den)
         THEN <<x>> \o s
         ELSE <<Head(s)>> \o InsertDescUnstable(Tail(s), x)

\* sorted(items, key=lambda x: x[1], reverse=True): stable, so items of
\* equal value keep their order
RECURSIVE InsertDesc(_, _)
InsertDesc(s, x) ==
    IF s = <<>> THEN <<x>>
    ELSE IF FracLess(Head(s).val, x.val) THEN <<x>> \o s
         ELSE <<Head(s)>> \o InsertDesc(Tail(s), x)

RECURSIVE SortedDesc(_)
SortedDesc(items) ==
    IF items = <<>> THEN <<>>
    ELSE InsertDesc(SortedDesc(SubSeq(items, 1, Len(items) - 1)),
                    items[Len(items)])

\* Counter(values).most_common(): distinct values in first-seen order with
\* their counts, sorted by count, descending
RECURSIVE FirstSeen(_, _)
FirstSeen(values, acc) ==
    IF values = <<>> THEN acc
    ELSE FirstSeen(Tail(values),
                   IF Head(values) \in Range(acc) THEN acc
                   ELSE Append(acc, Head(values)))

Count(values, x) == Cardinality({i \in 1..Len(values) : values[i] = x})

Counter(values) ==
    LET keys == FirstSeen(values, <<>>) IN
    [i \in 1..Len(keys) |->
        [key |-> keys[i], val |-> Frac(Count(values, keys[i]), 1)]]

most_common(counter) == SortedDesc(counter)

(***************************************************************************)
(* analyze_graph: the values it computes, and the lines it prints          *)
(***************************************************************************)
analyze_graph(g) ==
    LET isolated == isolates(g)
        top_connected == Take(SortedDesc(degree_centrality(g)), TopK)
    IN [number_of_nodes |-> number_of_nodes(g),
        number_of_edges |-> number_of_edges(g),
        components |-> number_connected_components(g),
        type_counts |-> most_common(Counter(
            [i \in 1..Len(g.nodes) |-> g.nodes[i].entity_type])),
        isolated |-> isolated,
        degree_centrality |-> degree_centrality(g),
        top_connected |-> top_connected,
        connections |-> [i \in 1..Len(top_connected) |->
            [node |-> top_connected[i].key,
             count |-> degree(g, top_connected[i].key)]]]

Lines(tag, n) == [i \in 1..n |-> tag]

AnalyzeLines(a) ==
    <<"analysis", "total_entities", "total_relationships", "components",
      "entity_types">>
    \o Lines("type", Len(a.type_counts))
    \o (IF a.isolated # <<>>
        THEN <<"isolated_count">>
             \o Lines("isolated", Min(ShowFirst, Len(a.isolated)))
             \o (IF Len(a.isolated) > ShowFirst THEN <<"more">> ELSE <<>>)
        ELSE <<>>)
    \o <<"most_connected">>
    \o Lines("connected", Len(a.connections))
    \o <<"rule">>

(***************************************************************************)
(* find_redundancies (the same computation in both programs)               *)
(***************************************************************************)
\* the similarity test without .lower()
IsSimilarCaseSensitive(name1, name2) ==
    /\ Contains(name1, name2) \/ Contains(name2, name1)
    /\ name1 # name2

\* name1.lower() in name2.lower() or name2.lower() in name1.lower(),
\* and then name1 != name2
IsSimilar(name1, name2) ==
    /\ Contains(Lower(name1), Lower(name2))
         \/ Contains(Lower(name2), Lower(name1))
    /\ name1 # name2

\* for i, name1 in enumerate(names): for j, name2 in enumerate(names[i+1:], i+1)
RECURSIVE SimilarLoop(_, _, _, _)
SimilarLoop(names, i, j, similar_pairs) ==
    IF i > Len(names) THEN similar_pairs
    ELSE IF j > Len(names) THEN SimilarLoop(names, i + 1, i + 2, similar_pairs)
    ELSE SimilarLoop(names, i, j + 1,
             IF IsSimilar(names[i], names[j])
             THEN Append(similar_pairs, <<names[i], names[j]>>)
             ELSE similar_pairs)

similar_pairs_of(names) == SimilarLoop(names, 1, 2, <<>>)

\* the sparse test with < in place of <=
IsSparseEmptyOnly(e) == Len(e.observations) < SparseLimit

\* len(e['observations']) <= 1
IsSparse(e) == Len(e.observations) <= SparseLimit

\* [e for e in entities if len(e['observations']) <= 1]
sparse_entities_of(ents) == SelectSeq(ents, IsSparse)

\* raised: "" when the function returns, else the statement that raised
find_redundancies(ents) ==
    IF \E i \in 1..Len(ents) : ~Has(ents[i], "name")
    THEN [raised |-> "names", similar_pairs |-> <<>>, sparse_entities |-> <<>>]
    ELSE LET similar == similar_pairs_of([i \in 1..Len(ents) |-> ents[i].name])
         IN IF \E i \in 1..Len(ents) : ~Has(ents[i], "observations")
            THEN [raised |-> "sparse", similar_pairs |-> similar,
                  sparse_entities |-> <<>>]
            ELSE [raised |-> "", similar_pairs |-> similar,
                  sparse_entities |-> sparse_entities_of(ents)]

\* The static program prints the first 5 similar pairs and the first 5
\* sparse entities, each followed by a count of the rest; the interactive
\* one prints every similar pair and the first 5 sparse entities
RedundancyLines(r, static) ==
    <<"redundancy">>
    \o (IF r.raised = "names" THEN <<>>
        ELSE (IF r.similar_pairs # <<>>
              THEN <<"similar_header">>
                   \o Lines("similar", IF static
                                       THEN Min(ShowFirst, Len(r.similar_pairs))
                                       ELSE Len(r.similar_pairs))
                   \o (IF static /\ Len(r.similar_pairs) > ShowFirst
                       THEN <<"more">> ELSE <<>>)
              ELSE <<>>)
          \o (IF r.raised = "" /\ r.sparse_entities # <<>>
              THEN <<"sparse_count">>
                   \o Lines("sparse", Min(ShowFirst, Len(r.sparse_entities)))
                   \o (IF static /\ Len(r.sparse_entities) > ShowFirst
                       THEN <<"more">> ELSE <<>>)
              ELSE <<>>))

(***************************************************************************)
(* print_analysis of the interactive program                               *)
(***************************************************************************)
\* total_connections: the names of from_counts in first-seen order, then
\* the names seen only as 'to', each with from count + to count
total_connections(rels) ==
    LET froms == [i \in 1..Len(rels) |-> rels[i].from]
        tos == [i \in 1..Len(rels) |-> rels[i].to]
        keys == FirstSeen(tos, FirstSeen(froms, <<>>))
    IN [i \in 1..Len(keys) |->
           [key |-> keys[i],
            val |-> Frac(Count(froms, keys[i]) + Count(tos, keys[i]), 1)]]

print_analysis(ents, rels) ==
    LET totals == [total_entities |-> Len(ents),
                   total_relationships |-> Len(rels)]
    IN IF \E i \in 1..Len(ents) : ~Has(ents[i], "entityType")
       THEN [raised |-> "entity_types", totals |-> totals,
             type_counts |-> <<>>, connections |-> <<>>]
       ELSE LET types == most_common(Counter(
                    [i \in 1..Len(ents) |-> ents[i].entityType]))
            IN IF \E i \in 1..Len(rels) :
                      ~Has(rels[i], "from") \/ ~Has(rels[i], "to")
               THEN [raised |-> "counts", totals |-> totals,
                     type_counts |-> types, connections |-> <<>>]
               ELSE LET top == Take(SortedDesc(total_connections(rels)), TopK)
                    IN [raised |-> "", totals |-> totals, type_counts |-> types,
                        connections |-> [i \in 1..Len(top) |->
                            [node |-> top[i].key, count |-> top[i].val.num]]]

PrintAnalysisLines(a) ==
    <<"analysis", "total_entities", "total_relationships">>
    \o (IF a.raised = "entity_types" THEN <<>>
        ELSE <<"entity_types">> \o Lines("type", Len(a.type_counts))
             \o (IF a.raised = "counts" THEN <<>>
                 ELSE <<"most_connected">>
                      \o Lines("connected", Len(a.connections))
                      \o <<"rule">>))

(***************************************************************************)
(* create_interactive_graph: the PyVis network.  Network.add_node ignores  *)
(* an id it already holds; Network.add_edge ignores an edge it already     *)
(* holds in either direction.                                              *)
(***************************************************************************)
EmptyNet == [nodes |-> <<>>, edges |-> <<>>]

NetHasNode(n, id) == \E i \in 1..Len(n.nodes) : n.nodes[i].id = id

RECURSIVE NetAddNodes(_, _)
NetAddNodes(n, ents) ==
    IF ents = <<>> THEN n
    ELSE LET entity == Head(ents) IN
         NetAddNodes(
             IF NetHasNode(n, entity.name) THEN n
             ELSE [n EXCEPT !.nodes = Append(n.nodes,
                      [id |-> entity.name,
                       size |-> Len(entity.observations) * 3 + 15])],
             Tail(ents))

RECURSIVE NetAddEdges(_, _)
NetAddEdges(n, rels) ==
    IF rels = <<>> THEN [raised |-> FALSE, net |-> n]
    ELSE LET relation == Head(rels) IN
         IF ~Has(relation, "from") THEN [raised |-> TRUE, net |-> n]
         ELSE IF ~NetHasNode(n, relation.from) THEN NetAddEdges(n, Tail(rels))
         ELSE IF ~Has(relation, "to") THEN [raised |-> TRUE, net |-> n]
         ELSE IF ~NetHasNode(n, relation.to) THEN NetAddEdges(n, Tail(rels))
         ELSE IF ~Has(relation, "relationType") THEN [raised |-> TRUE, net |-> n]
         ELSE NetAddEdges(
                  IF \E i \in 1..Len(n.edges) :
                         SameEdge([u |-> n.edges[i].from, v |-> n.edges[i].to],
                                  relation.from, relation.to)
                  THEN n
                  ELSE [n EXCEPT !.edges = Append(n.edges,
                           [from |-> relation.from, to |-> relation.to])],
                  Tail(rels))

create_interactive_graph(ents, rels) ==
    IF \E i \in 1..Len(ents) : ~(EntityKeys \subseteq DOMAIN ents[i])
    THEN [raised |-> TRUE, net |-> EmptyNet]
    ELSE NetAddEdges(NetAddNodes(EmptyNet, ents), rels)

(***************************************************************************)
(* Input files                                                             *)
(***************************************************************************)
AsLines(records) == [i \in 1..Len(records) |-> JsonLine(records[i])]

\* Well-formed files: entities of two names, relations among them and a
\* name that is no entity, blank lines and records of another type
EntityKinds ==
    {Entity(n, a[1], a[2]) :
        n \in {Alice, Bob},
        a \in {<<"person", 0>>, <<"place", 1>>, <<"person", 2>>}}

RelationKinds == {Relation(f, t) : f, t \in {Alice, Bob, Zed}}

WellFormedFile(f) ==
    \E ne \in 0..MaxRecords : \E e \in [1..ne -> EntityKinds] :
    \E nr \in 0..(MaxRecords - ne) : \E r \in [1..nr -> RelationKinds] :
    \E nt \in 0..(MaxRecords - ne - nr) :
    \E t \in [1..nt -> {BlankLine, OtherLine}] :
        f = AsLines(e) \o AsLines(r) \o t

\* Arbitrary files: lines that are not JSON and records that lack a key
Without(d, k) == [x \in DOMAIN d \ {k} |-> d[x]]

AnyLines ==
    {BlankLine, InvalidLine, OtherLine}
    \cup {JsonLine(d) : d \in
            {Entity(Alice, "person", 1)}
            \cup {Without(Entity(Alice, "person", 1), k) : k \in EntityKeys}
            \cup {Relation(Alice, Alice), Relation(Alice, Zed)}
            \cup {Without(Relation(Alice, Alice), k) :
                      k \in {"from", "to", "relationType"}}
            \cup {Without(Relation(Zed, Alice), k) : k \in {"to", "relationType"}}}

AnyFile(f) == \E n \in 0..MaxLines : \E l \in [1..n -> AnyLines] : f = l

\* Name-similarity files: entities only, of names that contain one another
SimilarNames == {Alice, alice, alice2, Bob, ob, <<>>}

NameFile(f) ==
    \E n \in 0..MaxNames : \E names \in [1..n -> SimilarNames] :
        f = AsLines([i \in 1..n |-> Entity(names[i], "person", 2)])

\* Ranking files: the first k of a list of distinct entities, and relations
\* from one of them to itself or to a later one
TopNames == <<Alice, Bob, Carol, Dan, Eve, Fay, Gus>>

TopFile(f) ==
    \E k \in 0..Min(MaxTopNodes, Len(TopNames)) :
    \E nr \in 0..MaxTopRelations :
    \E ends \in [1..nr -> {p \in (1..k) \X (1..k) : p[1] <= p[2]}] :
        f = AsLines([i \in 1..k |-> Entity(TopNames[i], "person", 2)])
            \o AsLines([i \in 1..nr |->
                   Relation(TopNames[ends[i][1]], TopNames[ends[i][2]])])

(***************************************************************************)
(* A run of main()                                                         *)
(***************************************************************************)
\* main() on a memory.json that exists; the locals before their assignment
NoAnalysis == [raised |-> "not run"]
NoRedundancy == [raised |-> "not run"]

Start(programs) ==
    /\ program \in programs
    /\ pc = "load_memory_file"
    /\ entities = <<>>
    /\ relations = <<>>
    /\ G = EmptyGraph
    /\ net = EmptyNet
    /\ analysis = NoAnalysis
    /\ redundancy = NoRedundancy
    /\ stdout = <<>>
    /\ saved = FALSE

Programs == {"static", "interactive"}

Init == WellFormedFile(file) /\ Start(Programs)
InitParse == AnyFile(file) /\ Start(Programs)
InitNames == NameFile(file) /\ Start(Programs)
InitTop == TopFile(file) /\ Start({"static"})

\* except Exception as e: print(f"Error: {e}")
Except ==
    /\ stdout' = Append(stdout, "Error")
    /\ pc' = "done"

\* entities, relations = load_memory_file(memory_file)
LoadMemoryFile ==
    /\ pc = "load_memory_file"
    /\ LET loaded == load_memory_file(file) IN
       IF loaded.raised
       THEN Except /\ UNCHANGED <<entities, relations>>
       ELSE /\ entities' = loaded.entities
            /\ relations' = loaded.relations
            /\ stdout' = stdout
            /\ pc' = IF program = "static" THEN "create_graph"
                     ELSE "print_analysis"
    /\ UNCHANGED <<program, file, G, net, analysis, redundancy, saved>>

\* G = create_graph(entities, relations)
CreateGraph ==
    /\ pc = "create_graph"
    /\ LET built == create_graph(entities, relations) IN
       IF built.raised
       THEN Except /\ G' = G
       ELSE /\ G' = built.G
            /\ stdout' = stdout
            /\ pc' = "analyze_graph"
    /\ UNCHANGED <<program, file, entities, relations, net, analysis,
                   redundancy, saved>>

\* analyze_graph(G)
AnalyzeGraph ==
    /\ pc = "analyze_graph"
    /\ analysis' = analyze_graph(G)
    /\ stdout' = stdout \o AnalyzeLines(analysis')
    /\ pc' = "find_redundancies"
    /\ UNCHANGED <<program, file, entities, relations, G, net, redundancy,
                   saved>>

\* find_redundancies(entities, relations), in either program
FindRedundancies ==
    /\ pc = "find_redundancies"
    /\ redundancy' = find_redundancies(entities)
    /\ LET printed == stdout \o RedundancyLines(redundancy', program = "static")
       IN IF redundancy'.raised # ""
          THEN /\ stdout' = Append(printed, "Error")
               /\ pc' = "done"
          ELSE /\ stdout' = printed
               /\ pc' = IF program = "static" THEN "visualize_graph"
                        ELSE "create_interactive_graph"
    /\ UNCHANGED <<program, file, entities, relations, G, net, analysis, saved>>

\* visualize_graph(G), then the closing lines of main; the rendering is
\* taken to succeed
VisualizeGraph ==
    /\ pc = "visualize_graph"
    /\ saved' = TRUE
    /\ stdout' = stdout \o <<"creating", "saved", "complete">>
    /\ pc' = "done"
    /\ UNCHANGED <<program, file, entities, relations, G, net, analysis,
                   redundancy>>

\* print_analysis(entities, relations)
PrintAnalysis ==
    /\ pc = "print_analysis"
    /\ analysis' = print_analysis(entities, relations)
    /\ LET printed == stdout \o PrintAnalysisLines(analysis')
       IN IF analysis'.raised # ""
          THEN /\ stdout' = Append(printed, "Error")
               /\ pc' = "done"
          ELSE /\ stdout' = printed
               /\ pc' = "find_redundancies"
    /\ UNCHANGED <<program, file, entities, relations, G, net, redundancy,
                   saved>>

\* create_interactive_graph(entities, relations), then the closing lines
CreateInteractiveGraph ==
    /\ pc = "create_interactive_graph"
    /\ LET built == create_interactive_graph(entities, relations) IN
       IF built.raised
       THEN /\ stdout' = stdout \o <<"creating", "Error">>
            /\ pc' = "done"
            /\ UNCHANGED <<net, saved>>
       ELSE /\ net' = built.net
            /\ saved' = TRUE
            /\ stdout' = stdout \o <<"creating", "saved", "features">>
            /\ pc' = "done"
    /\ UNCHANGED <<program, file, entities, relations, G, analysis, redundancy>>

Next ==
    \/ LoadMemoryFile
    \/ CreateGraph
    \/ AnalyzeGraph
    \/ FindRedundancies
    \/ VisualizeGraph
    \/ PrintAnalysis
    \/ CreateInteractiveGraph

Spec == Init /\ [][Next]_vars
SpecParse == InitParse /\ [][Next]_vars
SpecNames == InitNames /\ [][Next]_vars

\* visualize_memory.py alone
NextStatic ==
    \/ LoadMemoryFile
    \/ CreateGraph
    \/ AnalyzeGraph
    \/ FindRedundancies
    \/ VisualizeGraph

SpecTop == InitTop /\ [][NextStatic]_vars

(***************************************************************************)
(* Positions of a run that the properties speak about                      *)
(***************************************************************************)
\* create_graph has returned G
Built ==
    /\ program = "static"
    /\ pc \in {"analyze_graph", "find_redundancies", "visualize_graph"}
         \/ (pc = "done" /\ saved)

\* analyze_graph has returned
Analyzed == Built /\ pc # "analyze_graph"

\* print_analysis has returned
Printed == program = "interactive" /\ analysis.raised = ""

\* find_redundancies has returned
Searched == redundancy.raised = ""

EntityNames == {entities[i].name : i \in 1..Len(entities)}

KnownEnds(r) == r.from \in EntityNames /\ r.to \in EntityNames

\* the number of G's edges that touch n, a self-loop counted twice
Touching(n) ==
    Cardinality({i \in 1..Len(G.edges) : n \in {G.edges[i].u, G.edges[i].v}})
    + Cardinality({i \in 1..Len(G.edges) : {n} = {G.edges[i].u, G.edges[i].v}})

NodeIndex(n) == CHOOSE i \in 1..Len(G.nodes) : G.nodes[i].name = n

(***************************************************************************)
(* C1: the graph has at most as many edges as there are relation records,  *)
(* and exactly as many if and only if every relation joins two entity      *)
(* names.                                                                  *)
(***************************************************************************)
C1_EdgesEqualIffAllKnown ==
    Analyzed =>
        /\ analysis.number_of_edges <= Len(relations)
        /\ analysis.number_of_edges = Len(relations)
             <=> \A i \in 1..Len(relations) : KnownEnds(relations[i])

(***************************************************************************)
(* C1, amended: the graph has at most as many edges as there are relation  *)
(* records, and exactly as many if and only if every relation joins two    *)
(* entity names and no two relations join the same unordered pair.         *)
(***************************************************************************)
C1_EdgesEqualIffAllKnownAndDistinct ==
    Analyzed =>
        /\ analysis.number_of_edges <= Len(relations)
        /\ analysis.number_of_edges = Len(relations)
             <=> /\ \A i \in 1..Len(relations) : KnownEnds(relations[i])
                 /\ \A i, j \in 1..Len(relations) :
                        i # j => {relations[i].from, relations[i].to}
                                   # {relations[j].from, relations[j].to}

C1_Witness ==
    /\ Analyzed
    /\ Len(relations) >= 2
    /\ \A i \in 1..Len(relations) : KnownEnds(relations[i])
    /\ analysis.number_of_edges < Len(relations)

(***************************************************************************)
(* C3: a relation with an unknown endpoint gives no edge and no error, and *)
(* the build returns, with the graph, the number of such relations; every  *)
(* edge has both its endpoints among the nodes.                            *)
(***************************************************************************)
C3_DroppedCountReturned ==
    Built /\ (\E i \in 1..Len(relations) : ~KnownEnds(relations[i])) =>
        /\ \A e \in Range(G.edges) : HasNode(G, e.u) /\ HasNode(G, e.v)
        /\ Has(G, "dropped")
        /\ G.dropped = Cardinality({i \in 1..Len(relations) :
                                       ~KnownEnds(relations[i])})

(***************************************************************************)
(* C4: the graph has one node per distinct entity name, and the node of a  *)
(* name carries the type and observation count of the last entity of that  *)
(* name.                                                                   *)
(***************************************************************************)
LastOf(n) ==
    entities[CHOOSE i \in 1..Len(entities) :
                 /\ entities[i].name = n
                 /\ \A j \in (i + 1)..Len(entities) : entities[j].name # n]

C4_NodesLastWriteWins ==
    /\ Built =>
        /\ Len(G.nodes) = Cardinality(EntityNames)
        /\ \A n \in EntityNames :
              /\ HasNode(G, n)
              /\ NodeAttr(G, n).entity_type = LastOf(n).entityType
              /\ NodeAttr(G, n).observations = Len(LastOf(n).observations)
    /\ Analyzed => analysis.number_of_nodes = Cardinality(EntityNames)

C4_Witness ==
    /\ Analyzed
    /\ \E i, j \in 1..Len(entities) :
          /\ i < j
          /\ entities[i].name = entities[j].name
          /\ entities[i].entityType # entities[j].entityType
          /\ Len(entities[i].observations) # Len(entities[j].observations)

(***************************************************************************)
(* C5: find_redundancies flags exactly the pairs (names[i], names[j]),     *)
(* i < j, of distinct names of which one, in lower case, is part of the    *)
(* other in lower case; it lists them by i, then by j, each once.  Of      *)
(* Alice, alice2, Bob only (Alice, alice2) is flagged.                     *)
(***************************************************************************)
NamesOf == [i \in 1..Len(entities) |-> entities[i].name]

LowerCase(s) ==
    [i \in 1..Len(s) |-> CASE s[i] = "A" -> "a" [] s[i] = "B" -> "b"
                           [] OTHER -> s[i]]

PartOf(a, b) ==
    \E i \in 1..(Len(b) + 1) : \E j \in (i - 1)..Len(b) : SubSeq(b, i, j) = a

Flagged ==
    {p \in (1..Len(entities)) \X (1..Len(entities)) :
        /\ p[1] < p[2]
        /\ NamesOf[p[1]] # NamesOf[p[2]]
        /\ PartOf(LowerCase(NamesOf[p[1]]), LowerCase(NamesOf[p[2]]))
             \/ PartOf(LowerCase(NamesOf[p[2]]), LowerCase(NamesOf[p[1]]))}

\* the place of a flagged pair in the order by i, then by j
Place(p) ==
    1 + Cardinality({q \in Flagged :
                        q[1] < p[1] \/ (q[1] = p[1] /\ q[2] < p[2])})

C5_SimilarPairs ==
    Searched =>
        /\ Len(redundancy.similar_pairs) = Cardinality(Flagged)
        /\ \A p \in Flagged :
              redundancy.similar_pairs[Place(p)]
                  = <<NamesOf[p[1]], NamesOf[p[2]]>>
        /\ NamesOf = <<Alice, alice2, Bob>>
              => redundancy.similar_pairs = << <<Alice, alice2>> >>

C5_Witness ==
    /\ Searched
    /\ NamesOf = <<Alice, alice2, Bob>>
    /\ Len(redundancy.similar_pairs) = 1

(***************************************************************************)
(* C6: for a graph of 0 or 1 node the degree centrality is computed        *)
(* without a division by zero and is 0 for every node; for more nodes it   *)
(* is degree / (node count - 1).                                           *)
(***************************************************************************)
CentralityIs(c, n, d) == c.den > 0 /\ c.num * d = n * c.den

CentralityOfMany ==
    Len(G.nodes) > 1 =>
        \A i \in 1..Len(G.nodes) :
            /\ analysis.degree_centrality[i].key = G.nodes[i].name
            /\ CentralityIs(analysis.degree_centrality[i].val,
                            Touching(G.nodes[i].name), Len(G.nodes) - 1)

C6_CentralityZeroForSmallGraph ==
    Analyzed =>
        /\ Len(analysis.degree_centrality) = Len(G.nodes)
        /\ Len(G.nodes) <= 1 =>
              \A i \in 1..Len(G.nodes) :
                  CentralityIs(analysis.degree_centrality[i].val, 0, 1)
        /\ CentralityOfMany

(***************************************************************************)
(* C6, amended: for a graph of 0 or 1 node the degree centrality is        *)
(* computed without a division by zero and is 1 for every node; for more   *)
(* nodes it is degree / (node count - 1).                                  *)
(***************************************************************************)
C6_CentralityOneForSmallGraph ==
    Analyzed =>
        /\ Len(analysis.degree_centrality) = Len(G.nodes)
        /\ Len(G.nodes) <= 1 =>
              \A i \in 1..Len(G.nodes) :
                  CentralityIs(analysis.degree_centrality[i].val, 1, 1)
        /\ CentralityOfMany

C6_Witness ==
    /\ Analyzed
    /\ Len(G.nodes) = 1
    /\ analysis.degree_centrality[1].val.num = 1

(***************************************************************************)
(* C7: the most-connected list holds min(5, node count) nodes by           *)
(* descending degree centrality, nodes of equal centrality in node order;  *)
(* no node outside the list has a higher centrality than one inside; the   *)
(* ranking is over all the nodes of the graph.                             *)
(***************************************************************************)
Centrality(n) == analysis.degree_centrality[NodeIndex(n)].val

Higher(a, b) == b.num * a.den < a.num * b.den

TopNodes == {analysis.top_connected[k].key :
                k \in 1..Len(analysis.top_connected)}

C7_TopConnected ==
    Analyzed =>
        LET top == analysis.top_connected IN
        /\ Len(top) = Min(5, Len(G.nodes))
        /\ \A k \in 1..Len(top) :
              /\ HasNode(G, top[k].key)
              /\ top[k].val = Centrality(top[k].key)
              /\ analysis.connections[k]
                   = [node |-> top[k].key, count |-> Touching(top[k].key)]
        /\ \A k, l \in 1..Len(top) :
              k < l =>
                 /\ top[k].key # top[l].key
                 /\ ~Higher(top[l].val, top[k].val)
                 /\ ~Higher(top[k].val, top[l].val)
                      => NodeIndex(top[k].key) < NodeIndex(top[l].key)
        /\ \A i \in 1..Len(G.nodes) :
              G.nodes[i].name \notin TopNodes =>
                 \A k \in 1..Len(top) :
                     ~Higher(Centrality(G.nodes[i].name), top[k].val)

C7_Witness ==
    /\ Analyzed
    /\ Len(G.nodes) = 6
    /\ analysis.top_connected[1].key = Fay
    /\ analysis.top_connected[2].key = Dan
    /\ analysis.top_connected[3].key = Eve
    /\ Carol \notin TopNodes

(***************************************************************************)
(* C8: a node is reported isolated if and only if its degree in the built  *)
(* graph is 0, and the isolated nodes are listed in node order.            *)
(***************************************************************************)
C8_IsolatedIffDegreeZero ==
    Analyzed =>
        /\ \A i \in 1..Len(G.nodes) :
              G.nodes[i].name \in Range(analysis.isolated)
                  <=> Touching(G.nodes[i].name) = 0
        /\ \A k \in 1..Len(analysis.isolated) : HasNode(G, analysis.isolated[k])
        /\ \A k, l \in 1..Len(analysis.isolated) :
              k < l => NodeIndex(analysis.isolated[k])
                          < NodeIndex(analysis.isolated[l])

C8_Witness ==
    /\ Analyzed
    /\ analysis.isolated = <<Bob>>
    /\ G.edges = <<[u |-> Alice, v |-> Alice, relation_type |-> "knows"]>>

(***************************************************************************)
(* C9: the sparse entities are exactly the entities with 0 or 1            *)
(* observations, in the order of the entity sequence, and the entity       *)
(* sequence is left as it was loaded.                                      *)
(***************************************************************************)
FewObservations == {i \in 1..Len(entities) : Len(entities[i].observations) < 2}

C9_SparseEntities ==
    Searched =>
        /\ Len(redundancy.sparse_entities) = Cardinality(FewObservations)
        /\ \A i \in FewObservations :
              redundancy.sparse_entities[
                  Cardinality({j \in FewObservations : j <= i})] = entities[i]
        /\ entities = load_memory_file(file).entities

C9_Witness ==
    /\ Searched
    /\ Len(entities) = 3
    /\ Len(entities[1].observations) = 2
    /\ Len(entities[2].observations) = 1
    /\ Len(entities[3].observations) = 0
    /\ redundancy.sparse_entities = <<entities[2], entities[3]>>

(***************************************************************************)
(* C10: print_analysis reports the total entities, the total               *)
(* relationships and the connection count of each listed entity that       *)
(* analyze_graph reports for the graph create_graph builds of the same     *)
(* entities and relations.                                                 *)
(***************************************************************************)
StaticAnalysis == analyze_graph(create_graph(entities, relations).G)

C10_SameAnalysisAsStatic ==
    Printed =>
        /\ analysis.totals.total_entities = StaticAnalysis.number_of_nodes
        /\ analysis.totals.total_relationships = StaticAnalysis.number_of_edges
        /\ \A c \in Range(analysis.connections) :
              \A d \in Range(StaticAnalysis.connections) :
                  c.node = d.node => c.count = d.count

(***************************************************************************)
(* C2: a run on a file with a line that is not JSON, or an entity or       *)
(* relation record that lacks one of its keys, ends with an error and      *)
(* prints no analysis line and no redundancy line and writes no graph, in  *)
(* either program.                                                         *)
(***************************************************************************)
Malformed(line) ==
    \/ line.kind = "invalid"
    \/ /\ line.kind = "object"
       /\ \/ Get(line.data, "type") = "entity"
               /\ ~(EntityKeys \subseteq DOMAIN line.data)
          \/ Get(line.data, "type") = "relation"
               /\ ~({"from", "to", "relationType"} \subseteq DOMAIN line.data)

C2_FailFastNoPartialReport ==
    pc = "done" /\ (\E i \in 1..Len(file) : Malformed(file[i])) =>
        stdout = <<"Error">> /\ ~saved

=============================================================================
